---- MODULE Spec2Model ----
(***************************************************************************)
(* Model of the mediabase storage service: the four operations of          *)
(* internal/service/upload.go (PresignUpload, PresignDownload,             *)
(* DeleteObject, CreateBucket), Ping, and the MinIO implementation of the  *)
(* Storage interface they delegate to.                                     *)
(*                                                                         *)
(* A string that may hold path separators is a non-empty sequence of its   *)
(* separator-free segments: "users/avatars" is <<"users", "avatars">>,     *)
(* "a//b" is <<"a", "", "b">>, "a/" is <<"a", "">>, "/a" is <<"", "a">> and *)
(* the empty string is <<"">>.  Putting one separator between two strings   *)
(* is then the concatenation of their segment sequences.                   *)
(***************************************************************************)
EXTENDS Integers, Sequences, FiniteSets, TLC

\* ------------------------------------------------------------------ bounds
NumProcs == 2          \* concurrent request handlers
CfgMaxFileSize == 1    \* the configured Service.MaxFileSize (bytes)

\* --------------------------------------------------------------- constants
Second == 1000                              \* time.Second, in milliseconds
uploadExpiryOfOneHour == 3600 * Second    \* the download expiry, for uploads
defaultUploadExpiry == 60 * Second
defaultDownloadExpiry == 3600 * Second

Procs == 1..NumProcs

Empty == <<"">>                             \* the empty string

BucketNames == {"mediatest", "public"}

\* Configurations of Service.AllowedContentTypes.
AllowLists ==
    { {"image/jpeg", "image/png", "application/pdf"},
      {"image/jpeg", "image/webp", ""} }

\* Content types a request may carry.
ContentTypes ==
    {"image/jpeg", "application/pdf", "image/jpeg; charset=utf-8", "image/*",
     "text/html", ""}

\* Content types of the key derivations checked on their own.
KeyContentTypes == {"image/jpeg", "image/png", "image/webp", "application/pdf"}

SmallContentTypes == {"image/jpeg", "text/html"}

Sizes == (0 - 1)..(CfgMaxFileSize + 1)      \* requested max_file_size
BodySizes == 0..(CfgMaxFileSize + 2)        \* size of a body a client posts

\* Values uuid.New().String() may return.
UUIDs ==
    {"6ba7b810-9dad-41d1-80b4-00c04fd430c8",
     "7d444840-9dc0-41d1-b245-5ffdce74fad2"}

Paths ==
    { Empty,
      <<"users", "avatars">>,               \* users/avatars
      <<"users", "", "avatars">>,           \* users//avatars
      <<"users", "avatars", "">>,           \* users/avatars/
      <<"users", "..", "avatars">>,         \* users/../avatars
      <<"..", "..", "etc">>,                \* ../../etc
      <<"", "abs">>,                        \* /abs
      <<".">> }                             \* .

FileNames ==
    { Empty,
      <<"avatar.jpg">>,
      <<"..", "avatar.jpg">>,               \* ../avatar.jpg
      <<"sub", "", "avatar.jpg">> }         \* sub//avatar.jpg

\* Object keys of download and delete requests.
ObjectKeys == { <<"users", "avatars", "avatar.jpg">> }

VARIABLES
    allowedContentTypes,   \* Service.allowedContentTypes (keys mapped to true)
    maxFileSize,           \* Service.maxFileSize
    pc,                    \* per handler: where the request in flight stands
    req,                   \* per handler: the request in flight
    calls,                 \* per handler: Storage calls made for the request
    last,                  \* the most recently completed request
    derived,               \* the last two object keys derived, newest first
    buckets,               \* backend: existing buckets
    made,                  \* backend: successful MakeBucket calls per bucket
    policies,              \* backend: bucket policy documents
    objects,               \* backend: existing objects, <<bucket, key>>
    healthy                \* backend: no call fails for transport or auth reasons

vars == <<allowedContentTypes, maxFileSize, pc, req, calls, last, derived,
          buckets, made, policies, objects, healthy>>

NoReq == [op |-> "none"]
NoLast == [op |-> "none", req |-> NoReq, resp |-> [err |-> ""], calls |-> <<>>]

\* ---------------------------------------------------------- pure functions

\* A content-type check that ignores MIME parameters.
isValidContentTypeIgnoringParameters(contentType) ==
    \/ contentType \in allowedContentTypes
    \/ contentType = "image/jpeg; charset=utf-8" /\ "image/jpeg" \in allowedContentTypes

\* Service.isValidContentType: lookup in the map built by NewService.
isValidContentType(contentType) == contentType \in allowedContentTypes

\* A size check that also turns away a request for exactly the maximum.
SizeAllowedBelowMaximum(requestedMax) == ~(requestedMax >= maxFileSize)

\* The size check of PresignUpload: a request passes unless it asks for more
\* than the server maximum.
SizeAllowed(requestedMax) == ~(requestedMax > maxFileSize)

\* The extension switch of generateObjectKey.
ExtensionFor(contentType) ==
    CASE contentType = "image/jpeg" -> ".jpg"
      [] contentType = "image/png"  -> ".png"
      [] contentType = "image/webp" -> ".webp"
      [] OTHER                      -> ".bin"

\* path/filepath.Clean on a segment sequence: empty and "." segments are
\* dropped, ".." removes the segment before it (or is kept in front of a
\* relative path, or dropped at the root).
RECURSIVE CleanSegs(_, _, _)
CleanSegs(segs, out, rooted) ==
    IF segs = <<>> THEN out
    ELSE LET s == Head(segs)
             rest == Tail(segs)
         IN  IF s = "" \/ s = "." THEN CleanSegs(rest, out, rooted)
             ELSE IF s = ".."
             THEN IF out # <<>> /\ out[Len(out)] # ".."
                  THEN CleanSegs(rest, SubSeq(out, 1, Len(out) - 1), rooted)
                  ELSE IF ~rooted
                  THEN CleanSegs(rest, Append(out, ".."), rooted)
                  ELSE CleanSegs(rest, out, rooted)
             ELSE CleanSegs(rest, Append(out, s), rooted)

Clean(str) ==
    IF str = Empty THEN <<".">>
    ELSE LET rooted == Len(str) >= 2 /\ str[1] = ""
             out == CleanSegs(str, <<>>, rooted)
         IN  IF rooted THEN <<"">> \o (IF out = <<>> THEN <<"">> ELSE out)
             ELSE IF out = <<>> THEN <<".">> ELSE out

\* path/filepath.Join of two elements: empty elements are skipped, the rest
\* is joined with one separator and cleaned.
FilepathJoin(a, b) ==
    IF a # Empty THEN Clean(a \o b)
    ELSE IF b # Empty THEN Clean(b)
    ELSE Empty

\* A generateObjectKey that gives every generated name the .bin extension.
generateObjectKeyBinOnly(path, fileName, contentType, id) ==
    LET name == IF fileName # Empty THEN fileName ELSE << id \o ".bin" >>
    IN  IF path # Empty THEN FilepathJoin(path, name) ELSE name

\* A generateObjectKey that joins file name and path the wrong way round.
generateObjectKeySwapped(path, fileName, contentType, id) ==
    LET name == IF fileName # Empty THEN fileName
                ELSE << id \o ExtensionFor(contentType) >>
    IN  IF path # Empty THEN FilepathJoin(name, path) ELSE name

\* generateObjectKey; id is the value uuid.New().String() returns if called.
generateObjectKey(path, fileName, contentType, id) ==
    LET name == IF fileName # Empty THEN fileName
                ELSE << id \o ExtensionFor(contentType) >>
    IN  IF path # Empty THEN FilepathJoin(path, name) ELSE name

\* A policy document that also lets anyone write objects.
PublicReadWritePolicy(bucketName) ==
    [ Version |-> "2012-10-17",
      Statement |-> << [ Effect |-> "Allow",
                         Principal |-> [AWS |-> {"*"}],
                         Action |-> {"s3:GetObject", "s3:PutObject"},
                         Resource |-> {"arn:aws:s3:::" \o bucketName \o "/*"} ] >> ]

\* The policy document CreateBucket formats for a public bucket.
PublicReadPolicy(bucketName) ==
    [ Version |-> "2012-10-17",
      Statement |-> << [ Effect |-> "Allow",
                         Principal |-> [AWS |-> {"*"}],
                         Action |-> {"s3:GetObject"},
                         Resource |-> {"arn:aws:s3:::" \o bucketName \o "/*"} ] >> ]

\* time.Duration.Seconds() converted to int32.
Seconds(d) == d \div Second

\* ------------------------------------------------- MinIO storage provider

\* A post policy: each field is <<>> while unset and <<value>> once set.
NewPostPolicy ==
    [bucket |-> <<>>, key |-> <<>>, expires |-> <<>>,
     contentType |-> <<>>, lengthRange |-> <<>>]

\* The setters return an error (which GeneratePresignedUploadURL drops) and
\* leave the policy unchanged when their argument is rejected.
SetBucket(policy, bucketName) ==
    IF bucketName = "" THEN policy ELSE [policy EXCEPT !.bucket = <<bucketName>>]

SetKey(policy, objectKey) ==
    IF objectKey = Empty THEN policy ELSE [policy EXCEPT !.key = <<objectKey>>]

SetExpires(policy, expiryDuration) ==
    [policy EXCEPT !.expires = <<expiryDuration>>]

SetContentType(policy, contentType) ==
    IF contentType = "" THEN policy
    ELSE [policy EXCEPT !.contentType = <<contentType>>]

SetContentLengthRange(policy, minLen, maxLen) ==
    IF minLen > maxLen \/ minLen < 0 \/ maxLen <= 0 THEN policy
    ELSE [policy EXCEPT !.lengthRange = <<minLen, maxLen>>]

\* MinIOStorage.GeneratePresignedUploadURL; fail: the signing call fails.
GeneratePresignedUploadURL(bucketName, objectKey, contentType, expiryDuration, maxSize, fail) ==
    LET policy ==
            SetContentLengthRange(
                SetContentType(
                    SetExpires(
                        SetKey(SetBucket(NewPostPolicy, bucketName), objectKey),
                        expiryDuration),
                    contentType),
                0, maxSize)
    IN  IF fail \/ policy.bucket = <<>> \/ policy.key = <<>> \/ policy.expires = <<>>
        THEN [ok |-> FALSE, url |-> "", fields |-> <<>>]
        ELSE [ok |-> TRUE,
              url |-> "http://localhost:9000/" \o bucketName,
              fields |-> << [bucket |-> bucketName, key |-> objectKey,
                             contentType |-> policy.contentType,
                             policy |-> policy,
                             signature |-> "x-amz-signature"] >>]

\* MinIOStorage.GeneratePresignedDownloadURL.
GeneratePresignedDownloadURL(bucketName, objectKey, expiryDuration, fail) ==
    IF fail THEN [ok |-> FALSE, url |-> <<>>]
    ELSE [ok |-> TRUE,
          url |-> << [bucket |-> bucketName, key |-> objectKey,
                      expires |-> expiryDuration] >>]

\* An ObjectExists that answers "absent" for every failure of StatObject.
ObjectExistsHidingErrors(bucketName, objectKey, fail) ==
    [ok |-> TRUE,
     exists |-> ~fail /\ bucketName \in buckets
                      /\ <<bucketName, objectKey>> \in objects]

\* An ObjectExists that answers "present" for every key of an existing bucket.
ObjectExistsForAnyKey(bucketName, objectKey, fail) ==
    [ok |-> ~fail /\ bucketName \in buckets,
     exists |-> ~fail /\ bucketName \in buckets]

\* MinIOStorage.ObjectExists: StatObject answers NoSuchKey for a missing
\* object; a missing bucket and every other failure is an error.
ObjectExists(bucketName, objectKey, fail) ==
    IF fail \/ bucketName \notin buckets THEN [ok |-> FALSE, exists |-> FALSE]
    ELSE [ok |-> TRUE, exists |-> (<<bucketName, objectKey>> \in objects)]

\* MinIOStorage.DeleteObject: RemoveObject; removing a missing key succeeds.
DeleteObjectOk(bucketName, objectKey, fail) ==
    ~fail /\ bucketName \in buckets

\* The backend's check of a multipart POST made with the signed form fields:
\* every condition of the policy must hold of the submission, and a declared
\* Content-Type must be covered by a condition.
PostAccepted(form, size, declared) ==
    /\ form.policy.bucket # <<>>
    /\ form.policy.bucket[1] \in buckets
    /\ declared = form.policy.contentType
    /\ \/ form.policy.lengthRange = <<>>
       \/ /\ form.policy.lengthRange[1] <= size
          /\ size <= form.policy.lengthRange[2]

\* ------------------------------------------------------------------ state

Init ==
    /\ allowedContentTypes = {"image/jpeg", "image/png", "application/pdf"}
    /\ maxFileSize = CfgMaxFileSize
    /\ pc = [p \in Procs |-> "idle"]
    /\ req = [p \in Procs |-> NoReq]
    /\ calls = [p \in Procs |-> <<>>]
    /\ last = NoLast
    /\ derived = <<>>
    /\ buckets = {}
    /\ made = [b \in BucketNames |-> 0]
    /\ policies = [b \in BucketNames |-> <<>>]
    /\ objects = {}
    /\ healthy \in BOOLEAN

\* Whether the next backend call may fail.
FaultChoices == IF healthy THEN {FALSE} ELSE BOOLEAN

\* The handler returns: its response becomes the last completed request.
Return(p, op, r, resp, log) ==
    /\ pc' = [pc EXCEPT ![p] = "idle"]
    /\ req' = [req EXCEPT ![p] = NoReq]
    /\ calls' = [calls EXCEPT ![p] = <<>>]
    /\ last' = [op |-> op, req |-> r, resp |-> resp, calls |-> log]

\* The handler goes on to its next Storage call.
Goto(p, label, r, log) ==
    /\ pc' = [pc EXCEPT ![p] = label]
    /\ req' = [req EXCEPT ![p] = r]
    /\ calls' = [calls EXCEPT ![p] = log]
    /\ last' = last

UploadRequests(bs, cts, sizes, paths, names) ==
    [bucketName : bs, contentType : cts, maxFileSize : sizes,
     path : paths, fileName : names]

ObjectRequests == [bucketName : BucketNames, objectKey : ObjectKeys]

BucketRequests == [bucketName : BucketNames, isPublic : BOOLEAN]

\* ------------------------------------------------------------- operations

\* A PresignUpload that forwards the server ceiling as the policy's size
\* limit instead of the requested max_file_size.
PresignUploadForwardingCeiling(p, r, id, fail) ==
    /\ pc[p] = "idle"
    /\ UNCHANGED <<allowedContentTypes, maxFileSize, derived, healthy, buckets,
                   made, policies, objects>>
    /\ IF ~isValidContentType(r.contentType)
       THEN /\ ~fail
            /\ Return(p, "PresignUpload", r,
                      [err |-> "invalid content type"], <<>>)
       ELSE IF ~SizeAllowed(r.maxFileSize)
       THEN /\ ~fail
            /\ Return(p, "PresignUpload", r,
                      [err |-> "requested max file size exceeds server maximum allowed size"],
                      <<>>)
       ELSE LET objectKey == generateObjectKey(r.path, r.fileName,
                                               r.contentType, id)
                out == GeneratePresignedUploadURL(
                           r.bucketName, objectKey, r.contentType,
                           defaultUploadExpiry, maxFileSize, fail)
                log == << [method |-> "GeneratePresignedUploadURL",
                           bucket |-> r.bucketName, key |-> objectKey,
                           contentType |-> r.contentType,
                           ttl |-> defaultUploadExpiry,
                           maxSize |-> maxFileSize, ok |-> out.ok] >>
            IN  IF ~out.ok
                   THEN Return(p, "PresignUpload", r,
                               [err |-> "failed to generate presigned upload URL"],
                               log)
                   ELSE Return(p, "PresignUpload", r,
                               [err |-> "",
                                presignedUrl |-> out.url,
                                objectKey |-> objectKey,
                                expiresIn |-> Seconds(defaultUploadExpiry),
                                formData |-> out.fields],
                               log)

\* A PresignUpload whose allow-list lookup stores the looked-up content type
\* in the service's map, so that a type asked for once is allowed afterwards.
PresignUploadStoringLookup(p, r, id, fail) ==
    /\ pc[p] = "idle"
    /\ UNCHANGED <<maxFileSize, derived, healthy, buckets,
                   made, policies, objects>>
    /\ allowedContentTypes' = allowedContentTypes \cup {r.contentType}
    /\ IF ~isValidContentType(r.contentType)
       THEN /\ ~fail
            /\ Return(p, "PresignUpload", r,
                      [err |-> "invalid content type"], <<>>)
       ELSE IF ~SizeAllowed(r.maxFileSize)
       THEN /\ ~fail
            /\ Return(p, "PresignUpload", r,
                      [err |-> "requested max file size exceeds server maximum allowed size"],
                      <<>>)
       ELSE LET objectKey == generateObjectKey(r.path, r.fileName,
                                               r.contentType, id)
                out == GeneratePresignedUploadURL(
                           r.bucketName, objectKey, r.contentType,
                           defaultUploadExpiry, r.maxFileSize, fail)
                log == << [method |-> "GeneratePresignedUploadURL",
                           bucket |-> r.bucketName, key |-> objectKey,
                           contentType |-> r.contentType,
                           ttl |-> defaultUploadExpiry,
                           maxSize |-> r.maxFileSize, ok |-> out.ok] >>
            IN  IF ~out.ok
                   THEN Return(p, "PresignUpload", r,
                               [err |-> "failed to generate presigned upload URL"],
                               log)
                   ELSE Return(p, "PresignUpload", r,
                               [err |-> "",
                                presignedUrl |-> out.url,
                                objectKey |-> objectKey,
                                expiresIn |-> Seconds(defaultUploadExpiry),
                                formData |-> out.fields],
                               log)

\* Service.PresignUpload: the two gates, the key and one Storage call.
PresignUpload(p, r, id, fail) ==
    /\ pc[p] = "idle"
    /\ UNCHANGED <<allowedContentTypes, maxFileSize, derived, healthy, buckets,
                   made, policies, objects>>
    /\ IF ~isValidContentType(r.contentType)
       THEN /\ ~fail
            /\ Return(p, "PresignUpload", r,
                      [err |-> "invalid content type"], <<>>)
       ELSE IF ~SizeAllowed(r.maxFileSize)
       THEN /\ ~fail
            /\ Return(p, "PresignUpload", r,
                      [err |-> "requested max file size exceeds server maximum allowed size"],
                      <<>>)
       ELSE LET objectKey == generateObjectKey(r.path, r.fileName,
                                               r.contentType, id)
                out == GeneratePresignedUploadURL(
                           r.bucketName, objectKey, r.contentType,
                           defaultUploadExpiry, r.maxFileSize, fail)
                log == << [method |-> "GeneratePresignedUploadURL",
                           bucket |-> r.bucketName, key |-> objectKey,
                           contentType |-> r.contentType,
                           ttl |-> defaultUploadExpiry,
                           maxSize |-> r.maxFileSize, ok |-> out.ok] >>
            IN  IF ~out.ok
                   THEN Return(p, "PresignUpload", r,
                               [err |-> "failed to generate presigned upload URL"],
                               log)
                   ELSE Return(p, "PresignUpload", r,
                               [err |-> "",
                                presignedUrl |-> out.url,
                                objectKey |-> objectKey,
                                expiresIn |-> Seconds(defaultUploadExpiry),
                                formData |-> out.fields],
                               log)

\* A PresignDownload that does not look at the answer's exists flag.
AfterObjectExistsUnchecked(p, r, out, log) ==
    IF ~out.ok
    THEN Return(p, "PresignDownload", r,
                [err |-> "failed to check object existence"], log)
    ELSE Goto(p, "download_sign", r, log)

\* What PresignDownload does with the answer of Storage.ObjectExists.
AfterObjectExists(p, r, out, log) ==
    IF ~out.ok
    THEN Return(p, "PresignDownload", r,
                [err |-> "failed to check object existence"], log)
    ELSE IF ~out.exists
    THEN Return(p, "PresignDownload", r, [err |-> "object not found"], log)
    ELSE Goto(p, "download_sign", r, log)

\* Service.PresignDownload up to the return of Storage.ObjectExists.
PresignDownloadExists(p, r, fail) ==
    /\ pc[p] = "idle"
    /\ UNCHANGED <<allowedContentTypes, maxFileSize, derived, healthy, buckets,
                   made, policies, objects>>
    /\ LET out == ObjectExists(r.bucketName, r.objectKey, fail)
           log == << [method |-> "ObjectExists", bucket |-> r.bucketName,
                      key |-> r.objectKey, ok |-> out.ok,
                      exists |-> out.exists] >>
       IN  AfterObjectExists(p, r, out, log)

\* Service.PresignDownload from Storage.GeneratePresignedDownloadURL on.
PresignDownloadSign(p, fail) ==
    /\ pc[p] = "download_sign"
    /\ UNCHANGED <<allowedContentTypes, maxFileSize, derived, healthy, buckets,
                   made, policies, objects>>
    /\ LET r == req[p]
           out == GeneratePresignedDownloadURL(r.bucketName, r.objectKey,
                                               defaultDownloadExpiry, fail)
           log == Append(calls[p],
                         [method |-> "GeneratePresignedDownloadURL",
                          bucket |-> r.bucketName, key |-> r.objectKey,
                          ttl |-> defaultDownloadExpiry, ok |-> out.ok,
                          existed |-> (<<r.bucketName, r.objectKey>> \in objects)])
       IN  IF ~out.ok
           THEN Return(p, "PresignDownload", r,
                       [err |-> "failed to generate presigned download URL"],
                       log)
           ELSE Return(p, "PresignDownload", r,
                       [err |-> "", presignedUrl |-> out.url,
                        expiresIn |-> Seconds(defaultDownloadExpiry)],
                       log)

\* Service.DeleteObject.
DeleteObject(p, r, fail) ==
    /\ pc[p] = "idle"
    /\ UNCHANGED <<allowedContentTypes, maxFileSize, derived, healthy, buckets,
                   made, policies>>
    /\ LET ok == DeleteObjectOk(r.bucketName, r.objectKey, fail)
           log == << [method |-> "DeleteObject", bucket |-> r.bucketName,
                      key |-> r.objectKey, ok |-> ok] >>
       IN  /\ objects' = IF ok THEN objects \ {<<r.bucketName, r.objectKey>>}
                         ELSE objects
           /\ IF ~ok
              THEN Return(p, "DeleteObject", r,
                          [err |-> "failed to delete object"], log)
              ELSE Return(p, "DeleteObject", r,
                          [err |-> "", success |-> TRUE], log)

\* Service.CreateBucket once Storage.CreateBucket has returned without error.
BucketCreated(p, r, log) ==
    IF r.isPublic
    THEN Goto(p, "create_policy", r, log)
    ELSE Return(p, "CreateBucket", r, [err |-> "", success |-> TRUE], log)

\* A CreateBucket that makes the bucket without asking whether it exists.
CreateBucketExistsUnchecked(p, r, fail) ==
    /\ pc[p] = "idle"
    /\ UNCHANGED <<allowedContentTypes, maxFileSize, derived, healthy, buckets,
                   made, policies, objects>>
    /\ IF fail
       THEN Return(p, "CreateBucket", r, [err |-> "failed to create bucket"],
                   << [method |-> "CreateBucket", bucket |-> r.bucketName,
                       ok |-> FALSE, existed |-> FALSE] >>)
       ELSE Goto(p, "create_make", r, <<>>)

\* Service.CreateBucket up to the return of the client's BucketExists inside
\* MinIOStorage.CreateBucket.
CreateBucketExists(p, r, fail) ==
    /\ pc[p] = "idle"
    /\ UNCHANGED <<allowedContentTypes, maxFileSize, derived, healthy, buckets,
                   made, policies, objects>>
    /\ IF fail
       THEN Return(p, "CreateBucket", r, [err |-> "failed to create bucket"],
                   << [method |-> "CreateBucket", bucket |-> r.bucketName,
                       ok |-> FALSE, existed |-> FALSE] >>)
       ELSE IF r.bucketName \in buckets
       THEN BucketCreated(p, r,
                << [method |-> "CreateBucket", bucket |-> r.bucketName,
                    ok |-> TRUE, existed |-> TRUE] >>)
       ELSE Goto(p, "create_make", r, <<>>)

\* The client's MakeBucket inside MinIOStorage.CreateBucket and what
\* Service.CreateBucket does on its return.  Making a bucket that exists is
\* refused by the backend.
CreateBucketMake(p, fail) ==
    /\ pc[p] = "create_make"
    /\ UNCHANGED <<allowedContentTypes, maxFileSize, derived, healthy,
                   policies, objects>>
    /\ LET r == req[p]
           ok == ~fail /\ r.bucketName \notin buckets
           log == << [method |-> "CreateBucket", bucket |-> r.bucketName,
                      ok |-> ok, existed |-> FALSE] >>
       IN  /\ buckets' = IF ok THEN buckets \cup {r.bucketName} ELSE buckets
           /\ made' = IF ok THEN [made EXCEPT ![r.bucketName] = @ + 1] ELSE made
           /\ IF ~ok
              THEN Return(p, "CreateBucket", r,
                          [err |-> "failed to create bucket"], log)
              ELSE BucketCreated(p, r, log)

\* A CreateBucket that reports a failed policy step as a failed creation.
AfterSetBucketPolicySameError(p, r, ok, log) ==
    IF ~ok
    THEN Return(p, "CreateBucket", r, [err |-> "failed to create bucket"], log)
    ELSE Return(p, "CreateBucket", r, [err |-> "", success |-> TRUE], log)

\* A CreateBucket that only logs a failed policy step and reports success.
AfterSetBucketPolicyIgnoringFailure(p, r, ok, log) ==
    Return(p, "CreateBucket", r, [err |-> "", success |-> TRUE], log)

\* What CreateBucket returns once Storage.SetBucketPolicy has answered.
AfterSetBucketPolicy(p, r, ok, log) ==
    IF ~ok
    THEN Return(p, "CreateBucket", r, [err |-> "failed to set bucket policy"], log)
    ELSE Return(p, "CreateBucket", r, [err |-> "", success |-> TRUE], log)

\* Service.CreateBucket from Storage.SetBucketPolicy on.
CreateBucketPolicy(p, fail) ==
    /\ pc[p] = "create_policy"
    /\ UNCHANGED <<allowedContentTypes, maxFileSize, derived, healthy, buckets,
                   made,                   objects>>
    /\ LET r == req[p]
           policy == PublicReadPolicy(r.bucketName)
           ok == ~fail /\ r.bucketName \in buckets
           log == Append(calls[p],
                         [method |-> "SetBucketPolicy", bucket |-> r.bucketName,
                          policy |-> policy, ok |-> ok])
       IN  /\ policies' = IF ok THEN [policies EXCEPT ![r.bucketName] = <<policy>>]
                          ELSE policies
           /\ AfterSetBucketPolicy(p, r, ok, log)

\* Service.Ping.
Ping(p) ==
    /\ pc[p] = "idle"
    /\ UNCHANGED <<allowedContentTypes, maxFileSize, derived, healthy, buckets,
                   made, policies, objects>>
    /\ Return(p, "Ping", [op |-> "Ping"],
              [err |-> "", message |-> "Its fine here...!"], <<>>)

\* A client posts a body of the given size, declaring the given content type
\* (<<>>: none), with the form fields of the upload policy just issued.
ClientPost(size, declared) ==
    /\ last.op = "PresignUpload"
    /\ last.resp.err = ""
    /\ UNCHANGED <<allowedContentTypes, maxFileSize, pc, req, calls, derived,
                   buckets, made, policies, healthy>>
    /\ LET form == last.resp.formData[1]
           accepted == PostAccepted(form, size, declared)
       IN  /\ objects' = IF accepted /\ form.key \in ObjectKeys
                         THEN objects \cup {<<form.bucket, form.key>>}
                         ELSE objects
           /\ last' = [op |-> "ClientPost", req |-> last.req,
                       resp |-> [err |-> "", accepted |-> accepted,
                                 size |-> size, declared |-> declared],
                       calls |-> <<>>]

\* One call of generateObjectKey, kept with the call before it.
DeriveKey(path, fileName, contentType, id) ==
    /\ UNCHANGED <<allowedContentTypes, maxFileSize, pc, req, calls, last,
                   buckets, made, policies, objects, healthy>>
    /\ derived' =
         << [path |-> path, fileName |-> fileName, contentType |-> contentType,
             id |-> IF fileName = Empty THEN id ELSE "",
             key |-> generateObjectKey(path, fileName, contentType, id)] >>
         \o SubSeq(derived, 1, IF Len(derived) > 0 THEN 1 ELSE 0)

\* -------------------------------------------------------- specifications

SmallUploadRequests ==
    UploadRequests({"mediatest"}, SmallContentTypes,
                   {CfgMaxFileSize, CfgMaxFileSize + 1},
                   {<<"users", "avatars">>}, {<<"avatar.jpg">>})

AllUploadRequests ==
    UploadRequests({"mediatest"}, ContentTypes, Sizes,
                   {Empty}, {Empty, <<"avatar.jpg">>})

Declared == {<<>>} \cup {<<ct>> : ct \in ContentTypes}

\* uuid.New is called only for a request without a file name.
OneUUID == CHOOSE u \in UUIDs : TRUE

UploadStep(p, rs) ==
    \E r \in rs, fail \in FaultChoices : PresignUpload(p, r, OneUUID, fail)

DownloadExistsStep(p) ==
    \E r \in ObjectRequests, fail \in FaultChoices : PresignDownloadExists(p, r, fail)

DownloadSignStep(p) == \E fail \in FaultChoices : PresignDownloadSign(p, fail)

DeleteStep(p) ==
    \E r \in ObjectRequests, fail \in FaultChoices : DeleteObject(p, r, fail)

CreateExistsStep(p) ==
    \E r \in BucketRequests, fail \in FaultChoices : CreateBucketExists(p, r, fail)

CreateMakeStep(p) == \E fail \in FaultChoices : CreateBucketMake(p, fail)

CreatePolicyStep(p) == \E fail \in FaultChoices : CreateBucketPolicy(p, fail)

PostStep(sizes, cts) == \E size \in sizes, declared \in cts : ClientPost(size, declared)

\* Handlers run concurrently; a step is one backend call of one handler.
Next ==
    \/ \E p \in Procs : UploadStep(p, SmallUploadRequests)
    \/ \E p \in Procs : DownloadExistsStep(p)
    \/ \E p \in Procs : DownloadSignStep(p)
    \/ \E p \in Procs : DeleteStep(p)
    \/ \E p \in Procs : CreateExistsStep(p)
    \/ \E p \in Procs : CreateMakeStep(p)
    \/ \E p \in Procs : CreatePolicyStep(p)
    \/ \E p \in Procs : Ping(p)
    \/ PostStep({CfgMaxFileSize}, {<<"image/jpeg">>})

Spec == Init /\ [][Next]_vars

\* Every other handler is idle: the requests come one after the other.
Alone(p) == \A q \in Procs \ {p} : pc[q] = "idle"

NextSeq ==
    \/ \E p \in Procs : Alone(p) /\ UploadStep(p, SmallUploadRequests)
    \/ \E p \in Procs : Alone(p) /\ DownloadExistsStep(p)
    \/ \E p \in Procs : Alone(p) /\ DownloadSignStep(p)
    \/ \E p \in Procs : Alone(p) /\ DeleteStep(p)
    \/ \E p \in Procs : Alone(p) /\ CreateExistsStep(p)
    \/ \E p \in Procs : Alone(p) /\ CreateMakeStep(p)
    \/ \E p \in Procs : Alone(p) /\ CreatePolicyStep(p)
    \/ \E p \in Procs : Alone(p) /\ Ping(p)
    \/ PostStep({CfgMaxFileSize}, {<<"image/jpeg">>})

SpecSeq == Init /\ [][NextSeq]_vars

\* Upload policies over all content types and sizes, and the posts made
\* with them.
NextUpload ==
    \/ \E p \in Procs : UploadStep(p, AllUploadRequests)
    \/ PostStep(BodySizes, Declared)

\* The service is started against a backend that holds the bucket already.
InitUpload ==
    /\ allowedContentTypes \in AllowLists
    /\ maxFileSize = CfgMaxFileSize
    /\ pc = [p \in Procs |-> "idle"]
    /\ req = [p \in Procs |-> NoReq]
    /\ calls = [p \in Procs |-> <<>>]
    /\ last = NoLast
    /\ derived = <<>>
    /\ buckets = {"mediatest"}
    /\ made = [b \in BucketNames |-> IF b = "mediatest" THEN 1 ELSE 0]
    /\ policies = [b \in BucketNames |-> <<>>]
    /\ objects = {}
    /\ healthy \in BOOLEAN

SpecUpload == InitUpload /\ [][NextUpload]_vars

\* generateObjectKey on its own, over all paths and file names.
NextKey ==
    \E path \in Paths, fileName \in FileNames, contentType \in KeyContentTypes,
       id \in UUIDs :
        /\ (fileName # Empty => id = OneUUID /\ contentType = "image/jpeg")
        /\ DeriveKey(path, fileName, contentType, id)

SpecKey == Init /\ [][NextKey]_vars

\* ------------------------------------------------------------------ claims

InvalidContentTypeError == "invalid content type"
SizeExceededError == "requested max file size exceeds server maximum allowed size"
ObjectNotFoundError == "object not found"

\* C1: a PresignUpload whose content type is not an exact member of the
\* allow-list returns the invalid-content-type error, whatever its size, path
\* or file name, and makes no Storage call.
C1_InvalidContentTypeRejected ==
    (last.op = "PresignUpload" /\ last.req.contentType \notin allowedContentTypes)
        => /\ last.resp.err = InvalidContentTypeError
           /\ last.calls = <<>>

\* A type that differs from an allowed one by a MIME parameter only, with a
\* size above the ceiling, was turned away for its type.
C1_Witness ==
    /\ last.op = "PresignUpload"
    /\ last.req.contentType = "image/jpeg; charset=utf-8"
    /\ "image/jpeg" \in allowedContentTypes
    /\ last.req.maxFileSize > maxFileSize
    /\ last.resp.err = InvalidContentTypeError
    /\ last.calls = <<>>

\* C2: a PresignUpload with an allowed content type and max_file_size above
\* the ceiling returns the size-exceeded error and makes no Storage call; one
\* with max_file_size equal to the ceiling passes the size gate and reaches
\* the Storage call.
C2_SizeGate ==
    (last.op = "PresignUpload" /\ last.req.contentType \in allowedContentTypes)
        => /\ last.req.maxFileSize > maxFileSize
                => last.resp.err = SizeExceededError /\ last.calls = <<>>
           /\ last.req.maxFileSize = maxFileSize
                => /\ last.resp.err # SizeExceededError
                   /\ Len(last.calls) = 1
                   /\ last.calls[1].method = "GeneratePresignedUploadURL"

\* A request for exactly the ceiling got its upload policy.
C2_Witness ==
    /\ last.op = "PresignUpload"
    /\ last.req.contentType \in allowedContentTypes
    /\ last.req.maxFileSize = maxFileSize
    /\ last.resp.err = ""
    /\ Len(last.calls) = 1

\* The Storage calls a PresignDownload has made: ObjectExists first, and
\* GeneratePresignedDownloadURL only second and only after ObjectExists
\* answered that the object exists.
DownloadCallsInOrder(log) ==
    \A i \in DOMAIN log :
        /\ log[i].method \in {"ObjectExists", "GeneratePresignedDownloadURL"}
        /\ log[i].method = "ObjectExists" <=> i = 1
        /\ log[i].method = "GeneratePresignedDownloadURL"
              => log[1].ok /\ log[1].exists

\* C3: PresignDownload calls ObjectExists before any signing; when
\* ObjectExists answers false the request fails with the object-not-found
\* error and GeneratePresignedDownloadURL is not called for it.
C3_ExistenceCheckedBeforeSigning ==
    /\ \A p \in Procs :
          pc[p] = "download_sign"
              => /\ Len(calls[p]) = 1
                 /\ DownloadCallsInOrder(calls[p])
                 /\ calls[p][1].ok /\ calls[p][1].exists
    /\ last.op = "PresignDownload"
          => /\ Len(last.calls) >= 1
             /\ DownloadCallsInOrder(last.calls)
             /\ (last.calls[1].ok /\ ~last.calls[1].exists)
                   => /\ last.resp.err = ObjectNotFoundError
                      /\ Len(last.calls) = 1

\* A download of a missing object in an existing bucket was turned away.
C3_Witness ==
    /\ last.op = "PresignDownload"
    /\ last.req.bucketName \in buckets
    /\ last.calls[1].ok /\ ~last.calls[1].exists
    /\ last.resp.err = ObjectNotFoundError

CreateBucketFailedError == "failed to create bucket"
PolicyFailedError == "failed to set bucket policy"

\* The ARN of all objects of the two buckets.
ObjectsArn(bucketName) ==
    CASE bucketName = "mediatest" -> "arn:aws:s3:::mediatest/*"
      [] bucketName = "public"    -> "arn:aws:s3:::public/*"

\* The document grants s3:GetObject on the objects of the bucket and
\* nothing else.
GrantsReadOnly(policy, bucketName) ==
    /\ Len(policy.Statement) = 1
    /\ \A i \in DOMAIN policy.Statement :
          /\ policy.Statement[i].Effect = "Allow"
          /\ policy.Statement[i].Action = {"s3:GetObject"}
          /\ policy.Statement[i].Resource = {ObjectsArn(bucketName)}

SetBucketPolicyCalls(log) ==
    {i \in DOMAIN log : log[i].method = "SetBucketPolicy"}

\* C4: a CreateBucket with isPublic=true whose bucket creation succeeded
\* makes exactly one SetBucketPolicy call, after the CreateBucket call, for
\* the same bucket and with a document granting only s3:GetObject on
\* arn:aws:s3:::<bucket>/*; with isPublic=false it makes none.
C4_PublicPolicyOnce ==
    /\ \A p \in Procs :
          /\ pc[p] = "create_make" => calls[p] = <<>>
          /\ pc[p] = "create_policy"
                => /\ req[p].isPublic
                   /\ Len(calls[p]) = 1
                   /\ calls[p][1].method = "CreateBucket" /\ calls[p][1].ok
    /\ last.op = "CreateBucket"
          => /\ Len(last.calls) >= 1
             /\ last.calls[1].method = "CreateBucket"
             /\ (last.req.isPublic /\ last.calls[1].ok)
                   => /\ SetBucketPolicyCalls(last.calls) = {2}
                      /\ Len(last.calls) = 2
                      /\ last.calls[2].bucket = last.req.bucketName
                      /\ GrantsReadOnly(last.calls[2].policy, last.req.bucketName)
             /\ (~last.req.isPublic \/ ~last.calls[1].ok)
                   => SetBucketPolicyCalls(last.calls) = {}

\* A public bucket was created and its read-only policy is in force.
C4_Witness ==
    /\ last.op = "CreateBucket"
    /\ last.req.isPublic
    /\ last.req.bucketName = "public"
    /\ last.resp.err = ""
    /\ Len(last.calls) = 2
    /\ policies["public"] = << last.calls[2].policy >>
    /\ "mediatest" \in buckets
    /\ policies["mediatest"] = <<>>

\* C5: with a healthy backend and requests made one after the other, every
\* CreateBucket with isPublic=false returns success:true after one
\* Storage.CreateBucket call that did not fail, also when the bucket existed
\* before; the bucket then exists and has been made exactly once.
C5_CreateBucketIdempotent ==
    (healthy /\ last.op = "CreateBucket" /\ ~last.req.isPublic)
        => /\ last.resp.err = ""
           /\ last.resp.success
           /\ Len(last.calls) = 1
           /\ last.calls[1].method = "CreateBucket"
           /\ last.calls[1].ok
           /\ last.req.bucketName \in buckets
           /\ made[last.req.bucketName] = 1

\* A private CreateBucket of a bucket that a private CreateBucket had made
\* before (no policy was ever set on it) succeeded.
C5_Witness ==
    /\ healthy
    /\ last.op = "CreateBucket"
    /\ ~last.req.isPublic
    /\ last.calls[1].existed
    /\ policies[last.req.bucketName] = <<>>
    /\ last.resp.err = ""
    /\ last.resp.success
    /\ made[last.req.bucketName] = 1

\* C6: when CreateBucket with isPublic=true has created the bucket and
\* SetBucketPolicy fails, the request returns an error other than the
\* bucket-creation error and no success response, and makes no further
\* Storage call; the bucket stays in existence.
C6_PolicyFailureDistinct ==
    (/\ last.op = "CreateBucket"
     /\ Len(last.calls) >= 2
     /\ last.calls[1].ok
     /\ ~last.calls[2].ok)
        => /\ last.req.isPublic
           /\ last.calls[2].method = "SetBucketPolicy"
           /\ last.resp.err = PolicyFailedError
           /\ last.resp.err # CreateBucketFailedError
           /\ "success" \notin DOMAIN last.resp
           /\ Len(last.calls) = 2
           /\ last.req.bucketName \in buckets

\* The policy step failed on a bucket that this request had just made.
C6_Witness ==
    /\ last.op = "CreateBucket"
    /\ Len(last.calls) = 2
    /\ last.calls[1].ok /\ ~last.calls[1].existed
    /\ ~last.calls[2].ok
    /\ last.resp.err = PolicyFailedError
    /\ last.req.bucketName \in buckets
    /\ policies[last.req.bucketName] = <<>>

\* C7: every upload policy GeneratePresignedUploadURL returns makes the
\* backend refuse a body larger than maxSize and a declared content type
\* other than contentType, for every maxSize and contentType PresignUpload
\* forwards.
C7_PolicyEnforcesLimits ==
    (last.op = "ClientPost" /\ last.resp.accepted)
        => /\ last.resp.size <= last.req.maxFileSize
           /\ \A i \in DOMAIN last.resp.declared :
                 last.resp.declared[i] = last.req.contentType

\* The derivations kept in derived that were given a file name, and those
\* that were not.
Named == {i \in DOMAIN derived : derived[i].fileName # Empty}
Generated == {i \in DOMAIN derived : derived[i].fileName = Empty}

\* A string none of whose segments is empty, "." or "..".
IsPlain(str) == \A i \in DOMAIN str : str[i] \notin {"", ".", ".."}

\* C8 as claimed: with a file name, the key is the file name alone for an
\* empty path and otherwise path, one separator and the file name, with
\* neither part normalized.
C8_KeyIsPlainJoin ==
    \A i \in Named :
        derived[i].key = IF derived[i].path = Empty THEN derived[i].fileName
                         ELSE derived[i].path \o derived[i].fileName

\* C8 as amended: with a file name, the key is the file name verbatim for an
\* empty path, and otherwise the lexically cleaned form of path, one
\* separator and the file name: no empty segment is left but the one that
\* stands for a leading separator, no "." segment but in the key ".", and a
\* ".." segment takes the segment before it away and stays only in front of
\* a relative key.  Where neither part has such a segment, the key is exactly
\* path, one separator, file name.
C8_KeyIsCleanedJoin ==
    \A i \in Named :
        LET d == derived[i]
            joined == d.path \o d.fileName
        IN  /\ d.path = Empty => d.key = d.fileName
            /\ d.path # Empty =>
                 /\ d.key = Clean(joined)
                 /\ IsPlain(joined) => d.key = joined
                 /\ \A j \in DOMAIN d.key :
                       /\ d.key[j] = ""
                             => joined[1] = "" /\ (j = 1 \/ d.key = <<"", "">>)
                       /\ d.key[j] = "." => d.key = <<".">>
                       /\ d.key[j] = ".." => \A k \in 1..j : d.key[k] = ".."
            /\ (d.path = <<"users", "avatars">> /\ d.fileName = <<"avatar.jpg">>)
                 => d.key = <<"users", "avatars", "avatar.jpg">>
            /\ (d.path = <<"users", "", "avatars">> /\ d.fileName = <<"avatar.jpg">>)
                 => d.key = <<"users", "avatars", "avatar.jpg">>
            /\ (d.path = <<"users", "..", "avatars">> /\ d.fileName = <<"avatar.jpg">>)
                 => d.key = <<"avatars", "avatar.jpg">>
            /\ (d.path = <<"users", "avatars">> /\ d.fileName = <<"..", "avatar.jpg">>)
                 => d.key = <<"users", "avatar.jpg">>
            /\ (d.path = <<"..", "..", "etc">> /\ d.fileName = <<"avatar.jpg">>)
                 => d.key = <<"..", "..", "etc", "avatar.jpg">>

\* A key was derived from a path with a doubled separator and from a path
\* with a ".." segment, and both differ from the plain join.
C8_Witness ==
    /\ Len(derived) = 2
    /\ derived[1].path = <<"users", "", "avatars">>
    /\ derived[1].fileName = <<"avatar.jpg">>
    /\ derived[1].key = <<"users", "avatars", "avatar.jpg">>
    /\ derived[2].path = <<"users", "..", "avatars">>
    /\ derived[2].fileName = <<"sub", "", "avatar.jpg">>
    /\ derived[2].key = <<"avatars", "sub", "avatar.jpg">>

\* The extension table of the claim.
ClaimedExtension(contentType) ==
    IF contentType = "image/jpeg" THEN ".jpg"
    ELSE IF contentType = "image/png" THEN ".png"
    ELSE IF contentType = "image/webp" THEN ".webp"
    ELSE ".bin"

\* Without a file name, the name is a 36-character UUID followed by the
\* extension of the table; it is the whole key when the path is empty and
\* the last segment of the key otherwise.
GeneratedKeyShape(d) ==
    /\ Len(d.id) = 36
    /\ d.key[Len(d.key)] = d.id \o ClaimedExtension(d.contentType)
    /\ d.path = Empty => Len(d.key) = 1

C10_FixedExpiry ==
    /\ (last.op = "PresignUpload" /\ last.resp.err = "")
          => /\ last.calls[1].ttl = 60 * Second
             /\ last.resp.expiresIn = 60
             /\ last.resp.formData[1].policy.expires = << 60 * Second >>
    /\ (last.op = "PresignDownload" /\ last.resp.err = "")
          => /\ last.calls[2].method = "GeneratePresignedDownloadURL"
             /\ last.calls[2].ttl = 3600 * Second
             /\ last.resp.expiresIn = 3600
             /\ last.resp.presignedUrl[1].expires = 3600 * Second

\* An upload policy has been used to put an object, and a download URL for
\* that object has been issued.
C10_Witness ==
    /\ last.op = "PresignDownload"
    /\ last.resp.err = ""
    /\ last.resp.expiresIn = 3600
    /\ <<last.req.bucketName, last.req.objectKey>> \in objects

\* The keys generateObjectKey may derive for an upload request.
DerivedKeys(r) ==
    { generateObjectKey(r.path, r.fileName, r.contentType, id) : id \in UUIDs }

\* C11: a successful PresignUpload has called GeneratePresignedUploadURL
\* exactly once, with the request's bucket and content type, with the
\* requested max_file_size as maxSize and with the derived key; the
\* response's objectKey is that key, and its URL and formData are what the
\* backend returned for that call.
C11_UploadForwardsRequest ==
    (last.op = "PresignUpload" /\ last.resp.err = "")
        => /\ Len(last.calls) = 1
           /\ LET call == last.calls[1]
                  out == GeneratePresignedUploadURL(call.bucket, call.key,
                             call.contentType, call.ttl, call.maxSize, FALSE)
              IN  /\ call.method = "GeneratePresignedUploadURL"
                  /\ call.ok
                  /\ call.bucket = last.req.bucketName
                  /\ call.contentType = last.req.contentType
                  /\ call.maxSize = last.req.maxFileSize
                  /\ call.key \in DerivedKeys(last.req)
                  /\ last.resp.objectKey = call.key
                  /\ last.resp.presignedUrl = out.url
                  /\ last.resp.formData = out.fields
                  /\ last.resp.formData[1].key = call.key
                  /\ last.resp.formData[1].bucket = last.req.bucketName

\* An upload without a file name, asking for less than the ceiling, got a
\* policy for its generated key and its own size limit.
C11_Witness ==
    /\ last.op = "PresignUpload"
    /\ last.resp.err = ""
    /\ last.req.fileName = Empty
    /\ last.req.maxFileSize < maxFileSize
    /\ Len(last.calls) = 1
    /\ last.calls[1].maxSize = last.req.maxFileSize
    /\ last.resp.objectKey = last.calls[1].key
    /\ last.resp.objectKey \notin {last.req.path \o last.req.fileName}

ExistenceCheckFailedError == "failed to check object existence"

\* What one answer of ObjectExists, given as its log entry, says about the
\* backend it was asked: present only for a stored object, absent only for
\* a missing object of an existing bucket, an error for a missing bucket,
\* and on a healthy backend no error otherwise.
ObjectExistsAnswerRight(e) ==
    /\ e.method = "ObjectExists"
    /\ (e.ok /\ e.exists)
          => e.bucket \in buckets /\ <<e.bucket, e.key>> \in objects
    /\ (e.ok /\ ~e.exists)
          => e.bucket \in buckets /\ <<e.bucket, e.key>> \notin objects
    /\ e.bucket \notin buckets => ~e.ok
    /\ (healthy /\ e.bucket \in buckets) => e.ok

\* The step in which handler p receives the answer of ObjectExists.
ObjectExistsAnswered(p) ==
    /\ pc[p] = "idle"
    /\ \/ pc'[p] = "download_sign"
       \/ pc' = pc /\ last'.op = "PresignDownload"

\* C12: ObjectExists answers (false, no error) exactly when the backend
\* reports the object as not found, (true, no error) when it is stored, and
\* an error for every other failure, a missing bucket included; and a
\* PresignDownload whose ObjectExists returned an error makes no further
\* call and returns the existence-check error without a URL.
C12_ObjectExistsDistinguishesNotFound ==
    [][\A p \in Procs :
          ObjectExistsAnswered(p)
              => IF pc'[p] = "download_sign"
                 THEN /\ Len(calls'[p]) = 1
                      /\ ObjectExistsAnswerRight(calls'[p][1])
                      /\ calls'[p][1].ok /\ calls'[p][1].exists
                 ELSE /\ Len(last'.calls) = 1
                      /\ ObjectExistsAnswerRight(last'.calls[1])
                      /\ ~(last'.calls[1].ok /\ last'.calls[1].exists)
                      /\ "presignedUrl" \notin DOMAIN last'.resp
                      /\ ~last'.calls[1].ok
                            <=> last'.resp.err = ExistenceCheckFailedError
                      /\ (last'.calls[1].ok /\ ~last'.calls[1].exists)
                            <=> last'.resp.err = ObjectNotFoundError]_vars

\* On a healthy backend a download from a bucket that does not exist ended
\* with the existence-check error, not with object-not-found, and no URL.
C12_Witness ==
    /\ healthy
    /\ last.op = "PresignDownload"
    /\ last.req.bucketName \notin buckets
    /\ Len(last.calls) = 1
    /\ ~last.calls[1].ok
    /\ last.resp.err = ExistenceCheckFailedError
    /\ "presignedUrl" \notin DOMAIN last.resp

\* C13: with a healthy backend every CreateBucket request returns success,
\* also one that found the bucket absent while another request for the same
\* name was between its existence check and its make-bucket call.
C13_ConcurrentCreateBucketSucceeds ==
    (healthy /\ last.op = "CreateBucket" /\ ~last.calls[1].existed)
        => /\ last.resp.err = ""
           /\ last.resp.success

\* C14: a PresignDownload that returns a URL found the object present in
\* the backend at the moment of its GeneratePresignedDownloadURL call,
\* whatever DeleteObject requests ran beside it.
C14_UrlOnlyForObjectPresentAtSigning ==
    (last.op = "PresignDownload" /\ last.resp.err = "")
        => /\ Len(last.calls) = 2
           /\ last.calls[2].method = "GeneratePresignedDownloadURL"
           /\ last.calls[2].existed

\* The object a download or delete request names.
ObjectOf(r) == <<r.bucketName, r.objectKey>>

\* C14, amended: a PresignDownload goes on to signing only for an object
\* that is present at the moment of its ObjectExists call; between that
\* call and the signing only a successful DeleteObject for the same bucket
\* and key removes the object; and the signing makes no second check: it
\* returns a URL for the requested bucket and key whether or not the object
\* is still present.
C14_UrlOnlyForObjectPresentAtCheck ==
    [][\A p \in Procs :
          /\ (pc[p] = "idle" /\ pc'[p] = "download_sign")
                => /\ ObjectOf(req'[p]) \in objects
                   /\ objects' = objects
          /\ (pc[p] = "download_sign" /\ pc'[p] = "download_sign"
                /\ ObjectOf(req[p]) \in objects
                /\ ObjectOf(req[p]) \notin objects')
                => /\ last'.op = "DeleteObject"
                   /\ last'.resp.err = ""
                   /\ ObjectOf(last'.req) = ObjectOf(req[p])
          /\ (pc[p] = "download_sign" /\ pc'[p] = "idle")
                => /\ last'.op = "PresignDownload"
                   /\ last'.req = req[p]
                   /\ Len(last'.calls) = 2
                   /\ last'.calls[1].ok /\ last'.calls[1].exists
                   /\ last'.calls[2].existed <=> ObjectOf(req[p]) \in objects
                   /\ last'.calls[2].ok <=> last'.resp.err = ""
                   /\ last'.resp.err = ""
                         => /\ last'.resp.presignedUrl[1].bucket = req[p].bucketName
                            /\ last'.resp.presignedUrl[1].key = req[p].objectKey]_vars

\* A URL was returned for an object that the request's existence check
\* found and that a concurrent DeleteObject removed before the signing.
C14_Witness ==
    /\ last.op = "PresignDownload"
    /\ last.resp.err = ""
    /\ last.calls[1].ok /\ last.calls[1].exists
    /\ ~last.calls[2].existed
    /\ ObjectOf(last.req) \notin objects

\* The Storage methods an operation may call, in the order it calls them.
StorageCallsOf(op) ==
    CASE op = "PresignUpload"   -> <<"GeneratePresignedUploadURL">>
      [] op = "PresignDownload" -> <<"ObjectExists", "GeneratePresignedDownloadURL">>
      [] op = "DeleteObject"    -> <<"DeleteObject">>
      [] op = "CreateBucket"    -> <<"CreateBucket", "SetBucketPolicy">>
      [] OTHER                  -> <<>>

\* A log of Storage calls in which each method of the operation is called
\* at most once, in order, and no call follows a failed one.
CalledOnceUntilFailure(op, log) ==
    /\ Len(log) <= Len(StorageCallsOf(op))
    /\ \A i \in DOMAIN log :
          /\ log[i].method = StorageCallsOf(op)[i]
          /\ i < Len(log) => log[i].ok

\* C15: in PresignUpload, PresignDownload, DeleteObject and CreateBucket
\* every Storage call is made at most once per request; a failed Storage
\* call is the request's last call and makes it return an error and no
\* success response; a response without error is returned only when every
\* Storage call of the request returned without error; and DeleteObject
\* makes exactly one call, Storage.DeleteObject, with no existence check.
C15_NoRetryFailureStops ==
    /\ \A p \in Procs :
          /\ pc[p] = "download_sign"
                => /\ CalledOnceUntilFailure("PresignDownload", calls[p])
                   /\ \A i \in DOMAIN calls[p] : calls[p][i].ok
          /\ pc[p] \in {"create_make", "create_policy"}
                => /\ CalledOnceUntilFailure("CreateBucket", calls[p])
                   /\ \A i \in DOMAIN calls[p] : calls[p][i].ok
    /\ last.op \in {"PresignUpload", "PresignDownload", "DeleteObject",
                    "CreateBucket"}
          => /\ CalledOnceUntilFailure(last.op, last.calls)
             /\ (\E i \in DOMAIN last.calls : ~last.calls[i].ok)
                   => last.resp.err # "" /\ DOMAIN last.resp = {"err"}
             /\ last.resp.err = ""
                   => \A i \in DOMAIN last.calls : last.calls[i].ok
             /\ last.op = "DeleteObject"
                   => /\ Len(last.calls) = 1
                      /\ last.calls[1].method = "DeleteObject"
                      /\ last.calls[1].ok <=> last.resp.err = ""

\* The creation of a public bucket failed at its first Storage call: the
\* request returned the error and never called SetBucketPolicy.
C15_Witness ==
    /\ last.op = "CreateBucket"
    /\ last.req.isPublic
    /\ Len(last.calls) = 1
    /\ ~last.calls[1].ok
    /\ last.resp.err = CreateBucketFailedError
    /\ DOMAIN last.resp = {"err"}

\* C16: no step of PresignUpload, PresignDownload, DeleteObject,
\* CreateBucket or Ping, in any interleaving, changes the allow-list or the
\* size ceiling the service was constructed with, so that both validation
\* gates give every request the same outcome after the step as before it.
C16_ConfigurationNeverChanges ==
    [][/\ allowedContentTypes' = allowedContentTypes
       /\ maxFileSize' = maxFileSize
       /\ \A ct \in ContentTypes :
             isValidContentType(ct)' <=> isValidContentType(ct)
       /\ \A size \in Sizes :
             SizeAllowed(size)' <=> SizeAllowed(size)]_vars

\* After a bucket was created, an upload policy issued and used, and a
\* download URL returned, the service still holds its startup configuration
\* and turns away what it turned away at the start.
C16_Witness ==
    /\ last.op = "PresignDownload"
    /\ last.resp.err = ""
    /\ buckets # {}
    /\ objects # {}
    /\ maxFileSize = CfgMaxFileSize
    /\ allowedContentTypes = {"image/jpeg", "image/png", "application/pdf"}
    /\ ~isValidContentType("text/html")
    /\ ~SizeAllowed(CfgMaxFileSize + 1)
====
